---- MODULE Spec2Model ----
(***************************************************************************)
(* Model of the NextWork RAG API (src/app.py): a FastAPI application with  *)
(* two handlers, POST /query and GET /, a persistent Chroma collection and *)
(* the Ollama generation backend.                                          *)
(*                                                                         *)
(* Text is modelled as a sequence of one-character strings, so that the    *)
(* f-string of the prompt is a real concatenation and "contains" is a real *)
(* substring test.                                                         *)
(***************************************************************************)
EXTENDS Integers, Sequences, FiniteSets, TLC

\* Number of HTTP requests the server handles in one behaviour.
NumReqs == 2

\* n_results of collection.query (app.py line 11).
NResults == 1

Reqs == 1..NumReqs

EmptyStr == <<>>

\* Questions a client may send as the query parameter q.
QAnything == <<"a","n","y","t","h","i","n","g">>

QCapital == <<"W","h","a","t"," ","i","s"," ","t","h","e"," ","c","a","p","i","t","a","l"," ","o","f"," ","F","r","a","n","c","e","?">>

Questions == {EmptyStr, QAnything, QCapital}

\* Documents the collection under ./db may hold.
DocParis == <<"P","a","r","i","s"," ","i","s"," ","t","h","e"," ","c","a","p","i","t","a","l"," ","o","f"," ","F","r","a","n","c","e",".">>

DocChroma == <<"C","h","r","o","m","a"," ","s","t","o","r","e","s"," ","e","m","b","e","d","d","i","n","g","s",".">>

Docs == {DocParis, DocChroma}

\* Deterministic generation backends: one echoes its prompt, one returns "".
Backends == {"echo", "blank"}

\* The pieces of the f-string of line 16.
TplContext == <<"C","o","n","t","e","x","t",":","\n">>

TplQuestion == <<"\n","\n","Q","u","e","s","t","i","o","n",":"," ">>

TplAnswer == <<"\n","\n","A","n","s","w","e","r"," ","c","l","e","a","r","l","y"," ","a","n","d"," ","c","o","n","c","i","s","e","l","y",":">>

ModelName == "tinyllama"

VARIABLES
    store,      \* documents of the collection "docs" (a set of texts)
    index,      \* the collection's nearest-neighbour ranking for each query text
    backend,    \* which deterministic generation backend is serving
    pc,         \* position of each request's handler
    kind,       \* "none", "query" (POST /query) or "root" (GET /)
    q,          \* the parameter q of each POST /query
    results,    \* local `results`: the "documents" entry of the query result
    context,    \* local `context`
    prompt,     \* the prompt passed to ollama.generate
    answer,     \* local `answer`: what ollama.generate returned
    response,   \* what the client received
    log         \* per request, the outbound calls and their outcomes, in order

vars == <<store, index, backend, pc, kind, q, results, context, prompt, answer, response, log>>

\* ------------------------------------------------------------------------
\* Helpers on text and sequences

\* s contains t as a contiguous substring
Contains(s, t) ==
    \E i \in 0..(Len(s) - Len(t)) : SubSeq(s, i + 1, i + Len(t)) = t

\* s contains t and, after that occurrence, u
FollowedBy(s, t, u) ==
    \E i \in 0..(Len(s) - Len(t)) :
        /\ SubSeq(s, i + 1, i + Len(t)) = t
        /\ \E j \in (i + Len(t))..(Len(s) - Len(u)) : SubSeq(s, j + 1, j + Len(u)) = u

\* all orderings of a finite set, as sequences without repetition
Perms(S) ==
    {p \in [1..Cardinality(S) -> S] : \A i, j \in 1..Cardinality(S) : i # j => p[i] # p[j]}

Min(a, b) == IF a < b THEN a ELSE b

InLog(r, e) == \E i \in DOMAIN log[r] : log[r][i] = e

Count(r, e) == Cardinality({i \in DOMAIN log[r] : log[r][i] = e})

\* position of the first e in log[r], 0 if absent
Pos(r, e) ==
    IF InLog(r, e) THEN CHOOSE i \in DOMAIN log[r] : log[r][i] = e /\ \A j \in 1..(i - 1) : log[r][j] # e
    ELSE 0

\* ------------------------------------------------------------------------
\* The external collaborators, as far as the handler consumes them

\* collection.query(query_texts=[qq], n_results=1)["documents"]: one inner
\* list per query text, holding the texts of at most n_results nearest
\* documents; for an empty collection the inner list is empty.
QueryDocuments(qq) ==
    << SubSeq(index[qq], 1, Min(NResults, Len(index[qq]))) >>

\* ollama.generate(model, prompt): the backend's reply object.
Generate(b, m, p) ==
    [model |-> m, response |-> IF b = "echo" THEN p ELSE EmptyStr, done |-> TRUE]

\* ------------------------------------------------------------------------
\* The handler's own computations

\* line 12: the conditional is on the truthiness of results["documents"],
\* the outer list; documents[0][0] raises IndexError on an empty inner list.
ContextRaises(documents) ==
    Len(documents) > 0 /\ Len(documents[1]) = 0

Context(documents) ==
    IF Len(documents) > 0 THEN documents[1][1] ELSE EmptyStr

\* Prompt with the question and the context in each other's place.
PromptSwapped(c, qq) ==
    TplContext \o qq \o TplQuestion \o c \o TplAnswer

\* Prompt that also carries a mark for every request answered so far, as a
\* module-level conversation history would.
PromptWithHistory(c, qq) ==
    TplContext \o c \o TplQuestion \o qq \o TplAnswer
        \o [i \in 1..Cardinality({r \in Reqs : pc[r] = "done"}) |-> "+"]

\* line 16: f"Context:\n{context}\n\nQuestion: {q}\n\nAnswer clearly and concisely:"
Prompt(c, qq) ==
    TplContext \o c \o TplQuestion \o qq \o TplAnswer

\* The reply under the backend's key instead of "answer".
QueryBodyWrongKey(a) ==
    ("response" :> a.response)

\* line 19: {"answer": answer["response"]}
QueryBody(a) ==
    ("answer" :> a.response)

\* A payload whose message reports on the collection.
RootBodyFromStore ==
    ( "message" :> (IF store = {} THEN "NextWork RAG API has no documents"
                    ELSE "NextWork RAG API is running") @@
      "endpoints" :> ( "POST /query" :> "Query the knowledge base with a question" @@
                       "GET /docs" :> "Interactive API documentation (Swagger UI)" @@
                       "GET /redoc" :> "Alternative API documentation (ReDoc)" ) )

\* lines 22-29: the static payload of GET /
RootBody ==
    ( "message" :> "NextWork RAG API is running" @@
      "endpoints" :> ( "POST /query" :> "Query the knowledge base with a question" @@
                       "GET /docs" :> "Interactive API documentation (Swagger UI)" @@
                       "GET /redoc" :> "Alternative API documentation (ReDoc)" ) )

\* `context` as a module-level global: one cell for all requests.
BindContextShared(ctx, r, c) ==
    [x \in DOMAIN ctx |-> c]

\* line 12: `context` is a local of the handler's frame
BindContext(ctx, r, c) ==
    [ctx EXCEPT ![r] = c]

\* A lookup that also adds the query text to the collection.
StoreAfterQueryAdd(s, qq) ==
    s \cup {qq}

\* line 11: collection.query only reads the collection
StoreAfterQuery(s, qq) ==
    s

NoAnswer == [model |-> "", response |-> EmptyStr, done |-> FALSE]

NoResponse == [status |-> 0, body |-> <<>>]

\* an exception escaping the handler: the framework's default 500 reply
ServerError == [status |-> 500, body |-> <<>>]

Ok(body) == [status |-> 200, body |-> body]

\* ------------------------------------------------------------------------
Init ==
    /\ store \in SUBSET Docs
    /\ index \in [Questions -> Perms(store)]
    /\ backend \in Backends
    /\ pc = [r \in Reqs |-> "idle"]
    /\ kind = [r \in Reqs |-> "none"]
    /\ q = [r \in Reqs |-> EmptyStr]
    /\ results = [r \in Reqs |-> <<>>]
    /\ context = [r \in Reqs |-> EmptyStr]
    /\ prompt = [r \in Reqs |-> EmptyStr]
    /\ answer = [r \in Reqs |-> NoAnswer]
    /\ response = [r \in Reqs |-> NoResponse]
    /\ log = [r \in Reqs |-> <<>>]

\* POST /query?q=qq arrives; line 11 issues the lookup and blocks on it.
Query(r, qq) ==
    /\ pc[r] = "idle"
    /\ kind' = [kind EXCEPT ![r] = "query"]
    /\ q' = [q EXCEPT ![r] = qq]
    /\ log' = [log EXCEPT ![r] = Append(@, "lookup_call")]
    /\ pc' = [pc EXCEPT ![r] = "lookup"]
    /\ UNCHANGED <<store, index, backend, results, context, prompt, answer, response>>

\* line 11: collection.query returns and `results` is bound.
LookupReturn(r) ==
    /\ pc[r] = "lookup"
    /\ results' = [results EXCEPT ![r] = QueryDocuments(q[r])]
    /\ store' = StoreAfterQuery(store, q[r])
    /\ log' = [log EXCEPT ![r] = Append(@, "lookup_ret")]
    /\ pc' = [pc EXCEPT ![r] = "extract"]
    /\ UNCHANGED <<index, backend, kind, q, context, prompt, answer, response>>

\* A lookup error caught and replaced by an empty context.
LookupRaiseCaught(r) ==
    /\ pc[r] = "lookup"
    /\ log' = [log EXCEPT ![r] = Append(@, "lookup_err")]
    /\ context' = [context EXCEPT ![r] = EmptyStr]
    /\ pc' = [pc EXCEPT ![r] = "call"]
    /\ UNCHANGED <<store, index, backend, kind, q, results, prompt, answer, response>>

\* line 11: collection.query raises; nothing catches it.
LookupRaise(r) ==
    /\ pc[r] = "lookup"
    /\ log' = [log EXCEPT ![r] = Append(@, "lookup_err")]
    /\ response' = [response EXCEPT ![r] = ServerError]
    /\ pc' = [pc EXCEPT ![r] = "failed"]
    /\ UNCHANGED <<store, index, backend, kind, q, results, context, prompt, answer>>

\* line 12: extract the context; an IndexError escapes the handler.
Extract(r) ==
    /\ pc[r] = "extract"
    /\ IF ContextRaises(results[r])
       THEN /\ log' = [log EXCEPT ![r] = Append(@, "index_err")]
            /\ response' = [response EXCEPT ![r] = ServerError]
            /\ pc' = [pc EXCEPT ![r] = "failed"]
            /\ UNCHANGED context
       ELSE /\ context' = BindContext(context, r, Context(results[r]))
            /\ pc' = [pc EXCEPT ![r] = "call"]
            /\ UNCHANGED <<log, response>>
    /\ UNCHANGED <<store, index, backend, kind, q, results, prompt, answer>>

\* lines 14-17: format the prompt, call ollama.generate and block on it.
Call(r) ==
    /\ pc[r] = "call"
    /\ prompt' = [prompt EXCEPT ![r] = Prompt(context[r], q[r])]
    /\ log' = [log EXCEPT ![r] = Append(@, "gen_call")]
    /\ pc' = [pc EXCEPT ![r] = "generate"]
    /\ UNCHANGED <<store, index, backend, kind, q, results, context, answer, response>>

\* line 14: ollama.generate returns.
GenerateReturn(r) ==
    /\ pc[r] = "generate"
    /\ answer' = [answer EXCEPT ![r] = Generate(backend, ModelName, prompt[r])]
    /\ log' = [log EXCEPT ![r] = Append(@, "gen_ret")]
    /\ pc' = [pc EXCEPT ![r] = "respond"]
    /\ UNCHANGED <<store, index, backend, kind, q, results, context, prompt, response>>

\* A generation error caught and answered with an empty answer.
GenerateRaiseCaught(r) ==
    /\ pc[r] = "generate"
    /\ log' = [log EXCEPT ![r] = Append(@, "gen_err")]
    /\ response' = [response EXCEPT ![r] = Ok(("answer" :> EmptyStr))]
    /\ pc' = [pc EXCEPT ![r] = "done"]
    /\ UNCHANGED <<store, index, backend, kind, q, results, context, prompt, answer>>

\* line 14: ollama.generate raises; nothing catches it.
GenerateRaise(r) ==
    /\ pc[r] = "generate"
    /\ log' = [log EXCEPT ![r] = Append(@, "gen_err")]
    /\ response' = [response EXCEPT ![r] = ServerError]
    /\ pc' = [pc EXCEPT ![r] = "failed"]
    /\ UNCHANGED <<store, index, backend, kind, q, results, context, prompt, answer>>

\* line 19: the handler returns its result.
Respond(r) ==
    /\ pc[r] = "respond"
    /\ response' = [response EXCEPT ![r] = Ok(QueryBody(answer[r]))]
    /\ log' = [log EXCEPT ![r] = Append(@, "respond")]
    /\ pc' = [pc EXCEPT ![r] = "done"]
    /\ UNCHANGED <<store, index, backend, kind, q, results, context, prompt, answer>>

\* GET /: lines 20-29, no outbound call.
Root(r) ==
    /\ pc[r] = "idle"
    /\ kind' = [kind EXCEPT ![r] = "root"]
    /\ response' = [response EXCEPT ![r] = Ok(RootBody)]
    /\ pc' = [pc EXCEPT ![r] = "done"]
    /\ UNCHANGED <<store, index, backend, q, results, context, prompt, answer, log>>

Next ==
    \/ \E r \in Reqs, qq \in Questions : Query(r, qq)
    \/ \E r \in Reqs : LookupReturn(r)
    \/ \E r \in Reqs : LookupRaise(r)
    \/ \E r \in Reqs : Extract(r)
    \/ \E r \in Reqs : Call(r)
    \/ \E r \in Reqs : GenerateReturn(r)
    \/ \E r \in Reqs : GenerateRaise(r)
    \/ \E r \in Reqs : Respond(r)
    \/ \E r \in Reqs : Root(r)

Spec == Init /\ [][Next]_vars

\* The handler's own steps run to completion in their worker thread; the
\* two collaborators are under no obligation to return.
FairSpec ==
    Spec /\ \A r \in Reqs : WF_vars(Extract(r)) /\ WF_vars(Call(r)) /\ WF_vars(Respond(r))

TypeOK ==
    /\ store \subseteq Docs
    /\ \A r \in Reqs : pc[r] \in {"idle", "lookup", "extract", "call", "generate", "respond", "done", "failed"}

\* ------------------------------------------------------------------------
\* Properties

Succeeded(r) == kind[r] = "query" /\ response[r].status = 200

Failed(r) == kind[r] = "query" /\ response[r].status = 500

\* the handler has taken line 12 on the lookup's result
Extracted(r) == InLog(r, "lookup_ret") /\ pc[r] # "extract"

\* the handler has reached the generation call or failed before it
PastCall(r) == Extracted(r) /\ pc[r] # "call"

ZeroMatches(documents) == Len(documents) = 0 \/ Len(documents[1]) = 0

\* what a request for qq produces when it is the only one
AloneContext(qq) == IF Len(index[qq]) = 0 THEN EmptyStr ELSE index[qq][1]

AlonePrompt(qq) == TplContext \o AloneContext(qq) \o TplQuestion \o qq \o TplAnswer

AloneAnswer(qq) == IF backend = "echo" THEN AlonePrompt(qq) ELSE EmptyStr

MarkerAnything == <<"C","o","n","t","e","x","t",":","\n","\n","Q","u","e","s","t","i","o","n",":"," ","a","n","y","t","h","i","n","g">>

\* C1: every successful POST /query, for every q including "", answers an
\* object with an `answer` key whose value is exactly the text the
\* generation backend returned for that request's prompt.
C1_AnswerIsBackendText ==
    \A r \in Reqs : Succeeded(r) =>
        /\ "answer" \in DOMAIN response[r].body
        /\ response[r].body["answer"] = answer[r].response
        /\ InLog(r, "gen_ret")
        /\ answer[r].response = (IF backend = "echo" THEN prompt[r] ELSE EmptyStr)

C1_Witness ==
    \E r \in Reqs : Succeeded(r) /\ q[r] = EmptyStr /\ backend = "echo"

\* C2: when the lookup returned zero matches, the handler does not fail:
\* it passes the empty context to the generation backend, which is invoked.
C2_ZeroMatchesFallback ==
    \A r \in Reqs : (kind[r] = "query" /\ PastCall(r) /\ ZeroMatches(results[r])) =>
        /\ ~InLog(r, "index_err")
        /\ InLog(r, "gen_call")
        /\ context[r] = EmptyStr
        /\ prompt[r] = TplContext \o TplQuestion \o q[r] \o TplAnswer

\* C3: when the lookup returned one match T for q, the prompt sent to the
\* backend contains T and, after it, q; with the echoing backend so does
\* the answer.
C3_PromptHasContextThenQuestion ==
    \A r \in Reqs : (InLog(r, "gen_call") /\ ~ZeroMatches(results[r])) =>
        /\ FollowedBy(prompt[r], results[r][1][1], q[r])
        /\ (Succeeded(r) /\ backend = "echo") =>
               FollowedBy(response[r].body["answer"], results[r][1][1], q[r])

C3_Witness ==
    \E r \in Reqs : /\ Succeeded(r) /\ backend = "echo"
                    /\ q[r] = QCapital /\ results[r] = <<<<DocParis>>>>
                    /\ Contains(response[r].body["answer"], DocParis)
                    /\ Contains(response[r].body["answer"], QCapital)

\* C4: with an empty store and q = "anything", the prompt sent to the
\* backend contains "Context:", two newlines, "Question: anything".
C4_EmptyStoreMarker ==
    \A r \in Reqs : (kind[r] = "query" /\ store = {} /\ q[r] = QAnything /\ PastCall(r)) =>
        /\ InLog(r, "gen_call")
        /\ Contains(prompt[r], MarkerAnything)

\* C5: an error of the lookup or of the generation call ends the request
\* in failure with no answer, and nothing is retried: at most one lookup
\* and one generation call per request, the error being its last event.
C5_ErrorsPropagateNoRetry ==
    \A r \in Reqs :
        /\ Count(r, "lookup_call") <= 1
        /\ Count(r, "gen_call") <= 1
        /\ (InLog(r, "lookup_err") \/ InLog(r, "gen_err")) =>
              /\ pc[r] = "failed"
              /\ response[r].status = 500
              /\ "answer" \notin DOMAIN response[r].body
              /\ log[r][Len(log[r])] \in {"lookup_err", "gen_err"}
              /\ InLog(r, "lookup_err") => ~InLog(r, "gen_call")

C5_Witness ==
    /\ \E r \in Reqs : InLog(r, "gen_err") /\ pc[r] = "failed"
    /\ \E r \in Reqs : InLog(r, "lookup_err") /\ pc[r] = "failed"

\* C6: no step of any request, successful or failed, changes the document
\* store.
C6_StoreUnchanged ==
    [][store' = store /\ index' = index]_vars

C6_Witness ==
    /\ \E r \in Reqs : Succeeded(r)
    /\ \E r \in Reqs : kind[r] = "root" /\ pc[r] = "done"
    /\ store # {}

\* C7: two successful requests for the same question get identical
\* responses.
C7_SameQuestionSameResponse ==
    \A r1, r2 \in Reqs : (Succeeded(r1) /\ Succeeded(r2) /\ q[r1] = q[r2]) =>
        response[r1] = response[r2]

C7_Witness ==
    \E r1, r2 \in Reqs : /\ r1 # r2 /\ Succeeded(r1) /\ Succeeded(r2)
                         /\ q[r1] = q[r2] /\ backend = "echo"

\* C8: under every interleaving, the prompt a request sends and the answer
\* it returns are the ones it would produce alone, built from its own
\* question and its own lookup result.
C8_RequestsIsolated ==
    \A r \in Reqs :
        /\ InLog(r, "lookup_ret") => results[r] = QueryDocuments(q[r])
        /\ InLog(r, "gen_call") => prompt[r] = AlonePrompt(q[r])
        /\ Succeeded(r) => response[r].body["answer"] = AloneAnswer(q[r])

C8_Witness ==
    \E r1, r2 \in Reqs : /\ Succeeded(r1) /\ Succeeded(r2) /\ q[r1] # q[r2]
                         /\ Cardinality(store) = 2
                         /\ results[r1] # results[r2]
                         /\ backend = "echo"

\* C9: every GET / answers the same fixed object with a `message` string
\* and an `endpoints` object, whatever the store holds and whatever state
\* the other requests and the backend are in, and makes no outbound call.
C9_RootIsStatic ==
    \A r \in Reqs : kind[r] = "root" =>
        /\ response[r].status = 200
        /\ DOMAIN response[r].body = {"message", "endpoints"}
        /\ response[r].body["message"] = "NextWork RAG API is running"
        /\ DOMAIN response[r].body["endpoints"] = {"POST /query", "GET /docs", "GET /redoc"}
        /\ log[r] = <<>>
        /\ \A r2 \in Reqs : kind[r2] = "root" => response[r2] = response[r]

C9_Witness ==
    /\ \E r \in Reqs : kind[r] = "root" /\ pc[r] = "done"
    /\ \E r \in Reqs : kind[r] = "query" /\ pc[r] \in {"generate", "failed"}
    /\ store = {}

\* the order of one request's events
Ordered(r) ==
    /\ log[r] # <<>> => log[r][1] = "lookup_call"
    /\ InLog(r, "gen_call") =>
          /\ InLog(r, "lookup_ret") /\ Pos(r, "lookup_ret") < Pos(r, "gen_call")
          /\ ~InLog(r, "lookup_err")
    /\ InLog(r, "gen_ret") => (InLog(r, "gen_call") /\ Pos(r, "gen_call") < Pos(r, "gen_ret"))
    /\ (kind[r] = "query" /\ pc[r] = "done") =>
          /\ InLog(r, "gen_ret") /\ InLog(r, "respond")
          /\ Pos(r, "gen_ret") < Pos(r, "respond")
          /\ response[r].status = 200
    /\ (kind[r] = "query" /\ response[r].status = 200) => pc[r] = "done"

\* C10: in each request the lookup is issued first, the generation call
\* only after the lookup returned (never after it failed) and the response
\* only after the generation call returned; so a request whose generation
\* call has not returned is not complete, and one whose two calls both
\* returned eventually completes.
C10_OrderedAndCompletes ==
    /\ [](\A r \in Reqs : Ordered(r))
    /\ \A r \in Reqs : (InLog(r, "lookup_ret") /\ InLog(r, "gen_ret")) ~> (pc[r] = "done")

C10_Witness ==
    /\ \E r \in Reqs : kind[r] = "query" /\ pc[r] = "done"
                        /\ log[r] = <<"lookup_call", "lookup_ret", "gen_call", "gen_ret", "respond">>
    /\ \E r \in Reqs : pc[r] = "generate"
====
